---- MODULE Spec2Model ----
(***************************************************************************)
(* Model of logs-per-host.js: one run of the script, from the moment the   *)
(* API key has been typed in (requestApiKey) to the end of the run.        *)
(*                                                                         *)
(* The script is a single chain of async functions.  Every `await` is a    *)
(* position of the run; every action below is the code that runs between   *)
(* two such positions.  The remote service is the environment: each        *)
(* outstanding request is answered by one outcome (a JSON response or an   *)
(* error raised by https.request) drawn from a small set.                  *)
(***************************************************************************)
EXTENDS Integers, Sequences, FiniteSets, TLC

(***************************************************************************)
(* Bounds of the model.                                                    *)
(***************************************************************************)
\* largest number of inventory pages one run of findHosts may request
MaxPages == 3
\* largest number of log pages findLogCountByHost may request for one account
MaxLogPages == 2
\* the page cap of the log query: `rowCount === 2000` in the source, scaled
\* down so that full pages can be enumerated
PageCap == 2

(***************************************************************************)
(* JavaScript values.                                                      *)
(***************************************************************************)
\* a cursor or guid the response does not carry (null / undefined)
Absent == "<absent>"
\* JavaScript truthiness of a string-or-null value: null and '' are falsy
Truthy(s) == s \notin {Absent, ""}

\* hostnames are strings, modelled as sequences of UTF-16 code units
Hostnames == { <<1>>, <<1, 2>>, <<2>> }
\* a facet value that is null or '' (both falsy)
NoFacet == << >>
TruthySeq(s) == s /= << >>

Accounts == {1, 2}
ApiKey == "key"

\* the `data` section of a response; kind "none" is a response without data
NoData == [kind |-> "none", accounts |-> << >>, entities |-> << >>,
           nextCursor |-> Absent, results |-> << >>]
AccountsData(ids) == [NoData EXCEPT !.kind = "accounts", !.accounts = ids]
EntityData(es, c) == [NoData EXCEPT !.kind = "entities", !.entities = es,
                                    !.nextCursor = c]
LogData(rows) == [NoData EXCEPT !.kind = "log", !.results = rows]
\* what nerdgraphQuery returns when it gives up (line 286)
Undefined == NoData
IsData(d) == d.kind /= "none"

Entity(g, a) == [guid |-> g, accountId |-> a]
Row(f, h, n) == [facet |-> f, hostname |-> h, count |-> n]
\* a well-formed row of `FACET hostname`: facet and hostname are the same
HostRow(h) == Row(h, h, 1)

(***************************************************************************)
(* The simulated backend: the answers it may give to a request.            *)
(***************************************************************************)
AccountLists == { << >>, <<1>>, <<2, 1>> }
EntityPages == { << >>,
                 << Entity("g1", 1), Entity(Absent, 2) >>,
                 << Entity("", 1), Entity("g2", 2) >> }
Cursors == { Absent, "", "c1", "c2" }
\* rows repeated up to the page cap: a full page
Fill(rows) ==
    [i \in 1..PageCap |-> IF i <= Len(rows) THEN rows[i] ELSE rows[Len(rows)]]
LogPages == { << >>,
              << HostRow(<<1>>) >>,
              Fill(<< HostRow(<<2>>), HostRow(<<1, 2>>) >>),
              Fill(<< HostRow(<<1>>), Row(NoFacet, <<2, 1>>, 1) >>),
              Fill(<< HostRow(<<1, 2>>), HostRow(<<1, 2>>) >>) }
\* the host sets a hostname store may hold
HostSets == SUBSET Hostnames

\* errors raised by https.request: err.code and whether err.toString()
\* contains 'self signed certificate'
Errors == [code : {0, 18, 19}, selfSigned : BOOLEAN]

(***************************************************************************)
(* Ordering of strings: Array.prototype.sort() without a comparator        *)
(* compares strings by UTF-16 code units.                                  *)
(***************************************************************************)
\* a comparator that puts the shorter string first
RECURSIVE ShortLexLess(_, _)
ShortLexLess(s, t) ==
    IF Len(s) /= Len(t) THEN Len(s) < Len(t)
    ELSE IF s = << >> THEN FALSE
    ELSE IF Head(s) /= Head(t) THEN Head(s) < Head(t)
    ELSE ShortLexLess(Tail(s), Tail(t))

RECURSIVE LexLess(_, _)
LexLess(s, t) ==
    IF s = << >> THEN t /= << >>
    ELSE IF t = << >> THEN FALSE
    ELSE IF Head(s) /= Head(t) THEN Head(s) < Head(t)
    ELSE LexLess(Tail(s), Tail(t))

\* insert string x into the ascending sequence seq
RECURSIVE Insert(_, _)
Insert(x, seq) ==
    IF seq = << >> THEN << x >>
    ELSE IF LexLess(x, Head(seq)) THEN << x >> \o seq
    ELSE << Head(seq) >> \o Insert(x, Tail(seq))

\* [...new Set(xs)].sort(): the distinct strings of a set, ascending
RECURSIVE SortSet(_)
SortSet(S) ==
    IF S = {} THEN << >>
    ELSE LET x == CHOOSE y \in S : TRUE
         IN Insert(x, SortSet(S \ {x}))

Range(seq) == { seq[i] : i \in 1..Len(seq) }


(***************************************************************************)
(* Requests and outcomes.                                                  *)
(***************************************************************************)
\* JSON.stringify({query, variables}): the query text (its name, and for
\* getMoreLogCountByEntity the hostname spliced in for HOSTNAME_HERE) and
\* the variables `cursor` and `accountId`
Payload(q, f, c, a) == [query |-> q, filter |-> f, cursor |-> c, accountId |-> a]
NoFilter == << >>
NoAccount == 0
NoPayload == Payload("", NoFilter, Absent, NoAccount)

\* what buildRequestPromise puts on the wire
buildRequestPromise(apiKey, body) == [apiKey |-> apiKey, body |-> body]

NoError == [code |-> 0, selfSigned |-> FALSE]
\* the promise resolves to the deserialized response body
Response(e, d) == [type |-> "response", errors |-> e, data |-> d, err |-> NoError]
\* the promise rejects with the error of https.request
Raise(err) == [type |-> "error", errors |-> FALSE, data |-> NoData, err |-> err]
\* what is remembered of an outcome once the attempt is over
Seen(o) == [type |-> o.type, errors |-> o.errors, hasData |-> IsData(o.data),
            data |-> o.data, err |-> o.err]

\* String(undefined), which .replace() splices in for an empty page
UndefinedText == << 0 >>

\* the backend's order of hostnames: s comes before t when s is a proper
\* prefix of t or is smaller at the first position where they differ
Before(s, t) ==
    \E k \in 0..Len(s) :
        /\ k <= Len(t)
        /\ \A i \in 1..k : s[i] = t[i]
        /\ \/ k = Len(s) /\ k < Len(t)
           \/ k < Len(s) /\ k < Len(t) /\ s[k + 1] < t[k + 1]

\* the rows a hostname store returns for a log query: the hostnames that
\* pass the filter `hostname > '...'`, ORDER BY hostname, LIMIT MAX
StorePage(H, p) ==
    LET pass == { h \in H : p.query = "getMoreLogCountByEntity"
                              => Before(p.filter, h) }
        n    == IF Cardinality(pass) < PageCap THEN Cardinality(pass) ELSE PageCap
        asc  == CHOOSE seq \in [1..n -> pass] :
                    /\ \A i, j \in 1..n : i < j => Before(seq[i], seq[j])
                    /\ \A h \in pass \ { seq[i] : i \in 1..n } :
                          \A i \in 1..n : Before(seq[i], h)
    IN [i \in 1..n |-> HostRow(asc[i])]

LogQueries == {"getLogCountByEntity", "getMoreLogCountByEntity"}
EntityQueries == {"getXstoreEntities", "getMoreXstoreEntities"}

VARIABLES
    pc,            \* position of the run
    qstate,        \* position inside nerdgraphQuery
    payload,       \* nerdgraphQuery: the payload built at line 259
    retval,        \* the value nerdgraphQuery returned to its caller
    exitCode,      \* status passed to process.exit, -1 while running
    accountIds,    \* state.accountIds; << >> while it is undefined
    hosts,         \* findHosts: the records accumulated so far
    accounts,      \* accountsWithHosts, the argument of findLogCountByHost
    acctIdx,       \* findLogCountByHost: index of the account in the for loop
    hostsWithLogs, \* findLogCountByHost: the records accumulated so far
    wire,          \* the requests sent by the current call of nerdgraphQuery
    outcomes,      \* the outcomes of the attempts of the current call
    served,        \* the inventory pages findHosts has received
    lastPage,      \* the log page findLogCountByHost processed last
    logPageNo,     \* number of log pages requested for the current account
    failed,        \* the accounts whose log query returned no data
    listed,        \* the first-page log queries sent: account and window
    store          \* the backend's hostname store, when it has one

vars == << pc, qstate, payload, retval, exitCode, accountIds, hosts, accounts,
           acctIdx, hostsWithLogs, wire, outcomes, served, lastPage,
           logPageNo, failed, listed, store >>

\* the answers the backend may give to a payload
Answers(p) ==
    IF p.query = "accessibleAccounts"
    THEN { AccountsData(ids) : ids \in AccountLists }
    ELSE IF p.query \in EntityQueries
    THEN { EntityData(es, c) : es \in EntityPages, c \in Cursors }
    ELSE IF store.on
    THEN { LogData(StorePage(store.H, p)) }
    ELSE { LogData(rows) : rows \in LogPages }

Outcomes(p) ==
    { Response(e, d) : e \in BOOLEAN, d \in Answers(p) \cup {NoData} }
    \cup { Raise(err) : err \in Errors }

(***************************************************************************)
(* nerdgraphQuery and handleNetworkError.                                  *)
(***************************************************************************)
Return(v) == [op |-> "return", value |-> v, status |-> -1]
Retry == [op |-> "retry", value |-> Undefined, status |-> -1]
Exit(n) == [op |-> "exit", value |-> Undefined, status |-> n]

\* handleNetworkError without the test of the error text
handleNetworkErrorCodeOnly(err) == err.code = 18 \/ err.code = 19

\* lines 297-311: TRUE when the error makes the process exit
handleNetworkError(err) == err.code = 18 \/ err.code = 19 \/ err.selfSigned

\* a first try block that treats a response with an errors field as failed
FirstTryErrorsFail(o) ==
    IF o.type = "response"
    THEN IF IsData(o.data) /\ ~o.errors THEN Return(o.data) ELSE Retry
    ELSE IF handleNetworkError(o.err) THEN Exit(5) ELSE Retry

\* a first try block that returns response.data whether or not it is there
FirstTryGivesUp(o) ==
    IF o.type = "response"
    THEN Return(o.data)
    ELSE IF handleNetworkError(o.err) THEN Exit(5) ELSE Retry

\* lines 261-272: the first try block
FirstTry(o) ==
    IF o.type = "response"
    THEN IF IsData(o.data) THEN Return(o.data) ELSE Retry
    ELSE IF handleNetworkError(o.err) THEN Exit(5) ELSE Retry

\* a second try block that tries again instead of giving up
SecondTryAgain(o) ==
    IF o.type = "response"
    THEN IF IsData(o.data) THEN Return(o.data) ELSE Retry
    ELSE IF handleNetworkError(o.err) THEN Exit(5) ELSE Retry

\* lines 276-286: the second try block and the final return
SecondTry(o) ==
    IF o.type = "response"
    THEN IF IsData(o.data) THEN Return(o.data) ELSE Return(Undefined)
    ELSE IF handleNetworkError(o.err) THEN Exit(5) ELSE Return(Undefined)

\* a call that sends the request and its retry together
CallEager(site, p) ==
    /\ pc' = site
    /\ payload' = p
    /\ wire' = << buildRequestPromise(ApiKey, p), buildRequestPromise(ApiKey, p) >>
    /\ outcomes' = << >>
    /\ qstate' = "await1"
    /\ retval' = Undefined

\* the call of nerdgraphQuery at position `site`: builds the payload and
\* sends the first request (lines 259-263)
Call(site, p) ==
    /\ pc' = site
    /\ payload' = p
    /\ wire' = << buildRequestPromise(ApiKey, p) >>
    /\ outcomes' = << >>
    /\ qstate' = "await1"
    /\ retval' = Undefined

\* the caller has taken the returned value and makes no further call
Leave ==
    /\ qstate' = "idle"
    /\ payload' = NoPayload
    /\ wire' = << >>
    /\ outcomes' = << >>
    /\ retval' = Undefined

\* the end of an attempt
Settle(step, o) ==
    /\ outcomes' = Append(outcomes, Seen(o))
    /\ CASE step.op = "return" ->
              /\ qstate' = "returned"
              /\ retval' = step.value
              /\ UNCHANGED << pc, exitCode, wire >>
         [] step.op = "retry" ->
              /\ qstate' = "await2"
              /\ wire' = Append(wire, buildRequestPromise(ApiKey, payload))
              /\ UNCHANGED << pc, exitCode, retval >>
         [] step.op = "exit" ->
              /\ pc' = "exit"
              /\ qstate' = "idle"
              /\ exitCode' = step.status
              /\ UNCHANGED << wire, retval >>
    /\ UNCHANGED << payload, accountIds, hosts, accounts, acctIdx,
                    hostsWithLogs, served, lastPage, logPageNo, failed, listed, store >>

QueryFirstAttempt ==
    /\ qstate = "await1"
    /\ \E o \in Outcomes(payload) : Settle(FirstTry(o), o)

QuerySecondAttempt ==
    /\ qstate = "await2"
    /\ \E o \in Outcomes(payload) : Settle(SecondTry(o), o)


(***************************************************************************)
(* requestApiKey and fetchAccountIds.                                      *)
(***************************************************************************)
\* lines 155-162 and 181: the key is typed in and the account listing is
\* sent
RequestApiKey ==
    /\ pc = "prompt"
    /\ Call("fetchAccountIds",
            Payload("accessibleAccounts", NoFilter, Absent, NoAccount))
    /\ UNCHANGED << exitCode, accountIds, hosts, accounts, acctIdx,
                    hostsWithLogs, served, lastPage, logPageNo, failed, listed, store >>

\* lines 180-188: reading res['actor'] of an undefined res throws, the catch
\* block returns undefined
fetchAccountIds(res) ==
    IF IsData(res) THEN [defined |-> TRUE, ids |-> res.accounts]
    ELSE [defined |-> FALSE, ids |-> << >>]

\* a gate that only tests that the listing came back
KeyAcceptedLoose(r) == r.defined

\* line 163: the gate of the run
KeyAccepted(r) == r.defined /\ Len(r.ids) > 0

\* lines 182-188 and 163-174; when the key is accepted findHosts starts and
\* sends the first entity search (lines 192-196)
FetchAccountIdsResume ==
    /\ pc = "fetchAccountIds"
    /\ qstate = "returned"
    /\ LET r == fetchAccountIds(retval)
       IN IF KeyAccepted(r)
          THEN /\ accountIds' = r.ids
               /\ hosts' = << >>
               /\ served' = << >>
               /\ Call("findHosts_first",
                       Payload("getXstoreEntities", NoFilter, Absent, NoAccount))
               /\ UNCHANGED exitCode
          ELSE /\ pc' = "exit"
               /\ exitCode' = 1
               /\ qstate' = "idle"
               /\ UNCHANGED << accountIds, hosts, served, payload, wire,
                               outcomes, retval >>
    /\ UNCHANGED << accounts, acctIdx, hostsWithLogs, lastPage, logPageNo, failed, listed, store >>

(***************************************************************************)
(* findHosts.                                                              *)
(***************************************************************************)
\* a loop that pushes every entity of the page
RECURSIVE KeptEntitiesAll(_)
KeptEntitiesAll(es) ==
    IF es = << >> THEN << >>
    ELSE << [guid |-> Head(es).guid, accountId |-> Head(es).accountId] >>
            \o KeptEntitiesAll(Tail(es))

\* a loop that tests the guid for null only and so keeps an empty guid
RECURSIVE KeptEntitiesLoose(_)
KeptEntitiesLoose(es) ==
    IF es = << >> THEN << >>
    ELSE (IF Head(es).guid /= Absent
          THEN << [guid |-> Head(es).guid, accountId |-> Head(es).accountId] >>
          ELSE << >>) \o KeptEntitiesLoose(Tail(es))

\* lines 202-206: the records pushed for the entities of one page
RECURSIVE KeptEntities(_)
KeptEntities(es) ==
    IF es = << >> THEN << >>
    ELSE (IF Truthy(Head(es).guid)
          THEN << [guid |-> Head(es).guid, accountId |-> Head(es).accountId] >>
          ELSE << >>) \o KeptEntities(Tail(es))

\* line 213: the variables of the request for the next page
MoreVariables(cursor) == cursor

\* line 209: is there another page to ask for
HasMore(cursor) == Truthy(cursor)

\* lines 202-219: one round of the while loop on a page that carries data
PageLoop(resultSet) ==
    LET cursor == resultSet.nextCursor
    IN /\ hosts' = hosts \o KeptEntities(resultSet.entities)
       /\ served' = Append(served, [entities |-> resultSet.entities,
                                    nextCursor |-> cursor])
       /\ IF HasMore(cursor)
          THEN /\ Len(served) + 1 < MaxPages
               /\ Call("findHosts_more",
                       Payload("getMoreXstoreEntities", NoFilter,
                               MoreVariables(cursor), NoAccount))
          ELSE /\ pc' = "findHosts_returned"
               /\ Leave

\* lines 197-216 after the first page: line 197 reads resultSet['actor'] and
\* throws when resultSet is undefined; nothing catches it
FindHostsFirstResume ==
    /\ pc = "findHosts_first"
    /\ qstate = "returned"
    /\ IF IsData(retval)
       THEN PageLoop(retval)
       ELSE /\ pc' = "crashed"
            /\ qstate' = "idle"
            /\ UNCHANGED << hosts, served, payload, wire, outcomes, retval >>
    /\ UNCHANGED << exitCode, accountIds, accounts, acctIdx, hostsWithLogs,
                    lastPage, logPageNo, failed, listed, store >>

\* lines 201-219 after a later page: `while (resultSet)` ends the loop when
\* the query returned undefined
FindHostsMoreResumeThrows ==
    /\ pc = "findHosts_more"
    /\ qstate = "returned"
    /\ IF IsData(retval)
       THEN PageLoop(retval)
       ELSE /\ pc' = "crashed"
            /\ qstate' = "idle"
            /\ UNCHANGED << hosts, served, payload, wire, outcomes, retval >>
    /\ UNCHANGED << exitCode, accountIds, accounts, acctIdx, hostsWithLogs,
                    lastPage, logPageNo, failed, listed, store >>

FindHostsMoreResume ==
    /\ pc = "findHosts_more"
    /\ qstate = "returned"
    /\ IF IsData(retval)
       THEN PageLoop(retval)
       ELSE /\ pc' = "findHosts_returned"
            /\ Leave
            /\ UNCHANGED << hosts, served >>
    /\ UNCHANGED << exitCode, accountIds, accounts, acctIdx, hostsWithLogs,
                    lastPage, logPageNo, failed, listed, store >>

(***************************************************************************)
(* findLogCountByHost.                                                     *)
(***************************************************************************)
\* the account ids of the records, one per record
DistinctNot(seq) == seq

\* line 167: [...new Set(hosts.map(item => item.accountId))], the distinct
\* account ids in the order of their first occurrence
RECURSIVE Distinct(_)
Distinct(seq) ==
    IF seq = << >> THEN << >>
    ELSE LET init == Distinct(SubSeq(seq, 1, Len(seq) - 1))
             last == seq[Len(seq)]
         IN IF last \in Range(init) THEN init ELSE Append(init, last)

AccountsWithHosts(hs) == Distinct([i \in 1..Len(hs) |-> hs[i].accountId])

\* lines 232-240: the records pushed for the rows of one page
RECURSIVE KeptRows(_, _)
KeptRows(account, rows) ==
    IF rows = << >> THEN << >>
    ELSE (IF TruthySeq(Head(rows).facet)
          THEN << [accountId |-> account, hostname |-> Head(rows).hostname,
                   logCount |-> Head(rows).count] >>
          ELSE << >>) \o KeptRows(account, Tail(rows))

\* a test that also asks again after a page below the cap
PageFullAtMost(rowCount) == rowCount <= PageCap

\* line 241: does the page call for another query
PageFull(rowCount) == rowCount = PageCap

\* a watermark taken from the front of the sorted hostnames
WatermarkFirst(rows) ==
    LET alphaHostNames == SortSet({ rows[i].hostname : i \in 1..Len(rows) })
    IN IF alphaHostNames = << >> THEN UndefinedText
       ELSE alphaHostNames[1]

\* lines 244-248: the hostname spliced into the next query, the last of the
\* distinct hostnames of the page in sort() order
Watermark(rows) ==
    LET alphaHostNames == SortSet({ rows[i].hostname : i \in 1..Len(rows) })
    IN IF alphaHostNames = << >> THEN UndefinedText
       ELSE alphaHostNames[Len(alphaHostNames)]

\* the time window of a log query: both query texts say SINCE 1 DAY AGO
QueryWindow(q) == "Day1"

\* line 227-228: the for loop moves to account i, or ends and
\* findLogCountByHost returns (line 255)
StartAccount(accts, i) ==
    IF i <= Len(accts)
    THEN /\ acctIdx' = i
         /\ logPageNo' = 1
         /\ listed' = Append(listed, [account |-> accts[i],
                                      window |-> QueryWindow("getLogCountByEntity")])
         /\ Call("findLog_first",
                 Payload("getLogCountByEntity", NoFilter, Absent, accts[i]))
    ELSE /\ pc' = "findLog_returned"
         /\ Leave
         /\ acctIdx' = i
         /\ UNCHANGED << logPageNo, listed >>

\* lines 166-168 after findHosts has returned, and lines 224-228
RunAfterFindHosts ==
    /\ pc = "findHosts_returned"
    /\ accounts' = AccountsWithHosts(hosts)
    /\ hostsWithLogs' = << >>
    /\ served' = << >>
    /\ StartAccount(AccountsWithHosts(hosts), 1)
    /\ UNCHANGED << exitCode, accountIds, hosts, lastPage, failed, store >>

NoPage == [account |-> NoAccount, rows |-> << >>, pageNo |-> 0]

\* a loop that gives up on all remaining accounts when a query returned
\* undefined
LogLoopStops(data) ==
    LET account == accounts[acctIdx]
        rows    == data.results
    IN IF IsData(data)
       THEN /\ hostsWithLogs' = hostsWithLogs \o KeptRows(account, rows)
            /\ UNCHANGED failed
            /\ lastPage' = [account |-> account, rows |-> rows,
                            pageNo |-> logPageNo]
            /\ IF PageFull(Len(rows))
               THEN /\ logPageNo < MaxLogPages
                    /\ logPageNo' = logPageNo + 1
                    /\ Call("findLog_more",
                            Payload("getMoreLogCountByEntity", Watermark(rows),
                                    Absent, account))
                    /\ UNCHANGED << acctIdx, listed >>
               ELSE StartAccount(accounts, acctIdx + 1)
       ELSE /\ failed' = failed \cup {account}
            /\ UNCHANGED << hostsWithLogs, lastPage >>
            /\ StartAccount(accounts, Len(accounts) + 1)

\* lines 230-253: `while (data)` on the value the query returned
LogLoop(data) ==
    LET account == accounts[acctIdx]
        rows    == data.results
    IN IF IsData(data)
       THEN /\ hostsWithLogs' = hostsWithLogs \o KeptRows(account, rows)
            /\ UNCHANGED failed
            /\ lastPage' = [account |-> account, rows |-> rows,
                            pageNo |-> logPageNo]
            /\ IF PageFull(Len(rows))
               THEN /\ logPageNo < MaxLogPages
                    /\ logPageNo' = logPageNo + 1
                    /\ Call("findLog_more",
                            Payload("getMoreLogCountByEntity", Watermark(rows),
                                    Absent, account))
                    /\ UNCHANGED << acctIdx, listed >>
               ELSE StartAccount(accounts, acctIdx + 1)
       ELSE /\ failed' = failed \cup {account}
            /\ UNCHANGED << hostsWithLogs, lastPage >>
            /\ StartAccount(accounts, acctIdx + 1)

FindLogFirstResume ==
    /\ pc = "findLog_first"
    /\ qstate = "returned"
    /\ LogLoop(retval)
    /\ UNCHANGED << exitCode, accountIds, hosts, accounts, served, store >>

FindLogMoreResume ==
    /\ pc = "findLog_more"
    /\ qstate = "returned"
    /\ LogLoop(retval)
    /\ UNCHANGED << exitCode, accountIds, hosts, accounts, served, store >>

\* line 169: all the run writes out as its result
RunOutput == [hostsWithLogs |-> Len(hostsWithLogs)]

\* line 169: the count of hosts with logs is printed and the run ends
RunAfterFindLog ==
    /\ pc = "findLog_returned"
    /\ pc' = "done"
    /\ UNCHANGED << qstate, payload, retval, exitCode, accountIds, hosts,
                    accounts, acctIdx, hostsWithLogs, wire, outcomes, served,
                    lastPage, logPageNo, failed, listed, store >>

(***************************************************************************)
(* The run.                                                                *)
(***************************************************************************)
InitRun ==
    /\ pc = "prompt"
    /\ qstate = "idle"
    /\ payload = NoPayload
    /\ retval = Undefined
    /\ exitCode = -1
    /\ accountIds = << >>
    /\ hosts = << >>
    /\ accounts = << >>
    /\ acctIdx = 0
    /\ hostsWithLogs = << >>
    /\ wire = << >>
    /\ outcomes = << >>
    /\ served = << >>
    /\ lastPage = NoPage
    /\ logPageNo = 0
    /\ failed = {}
    /\ listed = << >>

\* the backend answers log queries with any page
Init ==
    /\ InitRun
    /\ store = [on |-> FALSE, H |-> {}]

\* the backend answers log queries from a store of hostnames
InitStore ==
    /\ InitRun
    /\ store \in [on : {TRUE}, H : HostSets]

Next ==
    \/ RequestApiKey
    \/ QueryFirstAttempt
    \/ QuerySecondAttempt
    \/ FetchAccountIdsResume
    \/ FindHostsFirstResume
    \/ FindHostsMoreResume
    \/ RunAfterFindHosts
    \/ FindLogFirstResume
    \/ FindLogMoreResume
    \/ RunAfterFindLog

Spec == Init /\ [][Next]_vars

SpecStore == InitStore /\ [][Next]_vars

TypeOK ==
    /\ pc \in {"prompt", "fetchAccountIds", "findHosts_first", "findHosts_more",
               "findHosts_returned", "findLog_first", "findLog_more",
               "findLog_returned", "done", "exit", "crashed"}
    /\ qstate \in {"idle", "await1", "await2", "returned", "hung"}
    /\ exitCode \in {-1, 1, 5}


(***************************************************************************)
(* Properties of nerdgraphQuery.                                           *)
(***************************************************************************)
\* the error carries a self-signed-certificate indicator
CertIndicator(e) == e.code \in {18, 19} \/ e.selfSigned
\* the attempt failed for a reason other than a certificate
FailedAttempt(a) ==
    \/ a.type = "response" /\ ~a.hasData
    \/ a.type = "error" /\ ~CertIndicator(a.err)
\* the response carried an errors field and no data
ErrorsOnly(a) == a.type = "response" /\ a.errors /\ ~a.hasData

\* C1: a call of nerdgraphQuery sends at most two requests, the second is
\* the same request as the first, and after two failed attempts the call has
\* returned undefined with two requests sent and none outstanding.
C1_RetryBudget ==
    /\ Len(wire) <= 2
    /\ Len(wire) = 2 => wire[2] = wire[1]
    /\ Len(outcomes) <= Len(wire)
    /\ (Len(outcomes) = 2 /\ FailedAttempt(outcomes[1]) /\ FailedAttempt(outcomes[2]))
          => /\ qstate \in {"returned", "idle"}
             /\ retval = Undefined
             /\ Len(wire) = 2

C1_Witness ==
    /\ qstate = "returned"
    /\ Len(outcomes) = 2
    /\ outcomes[1].type = "error" /\ FailedAttempt(outcomes[1])
    /\ outcomes[2].type = "response" /\ FailedAttempt(outcomes[2])
    /\ retval = Undefined
    /\ Len(wire) = 2
    /\ wire[1].body.query = "getMoreXstoreEntities"

\* C2: an attempt that raises an error with a self-signed-certificate
\* indicator ends the run with exit status 5: it is the last attempt of the
\* call, no request is sent after it, and nothing runs after the exit.
C2_FatalTrustHalts ==
    /\ [](\A i \in 1..Len(outcomes) :
            (outcomes[i].type = "error" /\ CertIndicator(outcomes[i].err))
               => /\ pc = "exit"
                  /\ exitCode = 5
                  /\ i = Len(outcomes)
                  /\ Len(wire) = i)
    /\ [][pc /= "exit"]_vars

C2_Witness ==
    /\ pc = "exit"
    /\ exitCode = 5
    /\ Len(outcomes) = 1
    /\ outcomes[1].err = [code |-> 0, selfSigned |-> TRUE]
    /\ Len(wire) = 1
    /\ wire[1].body.query = "getLogCountByEntity"
    /\ acctIdx = 1
    /\ Len(accounts) = 2

\* C10: a response with an errors field and no data is a failed attempt:
\* after it on the first attempt exactly one more request has been sent,
\* after it on the second attempt the call has returned undefined and no
\* third request is sent.
C10_ErrorsOnlyIsFailure ==
    /\ (Len(outcomes) >= 1 /\ ErrorsOnly(outcomes[1])) => Len(wire) = 2
    /\ (Len(outcomes) >= 2 /\ ErrorsOnly(outcomes[2]))
          => /\ qstate \in {"returned", "idle"}
             /\ retval = Undefined
             /\ Len(wire) = 2

C10_Witness ==
    /\ qstate = "returned"
    /\ Len(outcomes) = 2
    /\ ErrorsOnly(outcomes[1])
    /\ ErrorsOnly(outcomes[2])
    /\ retval = Undefined
    /\ Len(wire) = 2


(***************************************************************************)
(* Properties of the credential gate and of findHosts.                     *)
(***************************************************************************)
\* a request of the current call is outstanding or has just been answered
InCall == qstate \in {"await1", "await2", "returned"}

\* the entities of all pages received so far, in the order received
RECURSIVE ServedEntities(_)
ServedEntities(pages) ==
    IF pages = << >> THEN << >>
    ELSE ServedEntities(SubSeq(pages, 1, Len(pages) - 1))
            \o pages[Len(pages)].entities

CarriesGuid(e) == e.guid /= Absent /\ e.guid /= ""

\* C3: when two consecutive inventory pages came back with the same
\* non-empty cursor, findHosts does not request another page.
C3_StallAborts ==
    ~ /\ pc = "findHosts_more"
      /\ InCall
      /\ Len(served) >= 2
      /\ served[Len(served)].nextCursor = served[Len(served) - 1].nextCursor
      /\ served[Len(served)].nextCursor \notin {Absent, ""}

\* C4: findHosts asks for the first page without a cursor and for every
\* later page with the cursor of the page before; a page without a cursor
\* ends the pagination, and findHosts then returns the entities of all pages
\* received that carry a guid, in order, none lost and none added.
C4_InventoryPagination ==
    /\ pc = "findHosts_first"
          => /\ payload.query = "getXstoreEntities"
             /\ payload.cursor = Absent
             /\ served = << >>
    /\ pc = "findHosts_more"
          => /\ payload.query = "getMoreXstoreEntities"
             /\ served /= << >>
             /\ payload.cursor = served[Len(served)].nextCursor
             /\ \A i \in 1..Len(wire) : wire[i].body = payload
    /\ (served /= << >> /\ served[Len(served)].nextCursor \in {Absent, ""})
          => /\ pc = "findHosts_returned"
             /\ Len(hosts) = Len(SelectSeq(ServedEntities(served), CarriesGuid))
             /\ \A i \in 1..Len(hosts) :
                  LET e == SelectSeq(ServedEntities(served), CarriesGuid)[i]
                  IN hosts[i] = [guid |-> e.guid, accountId |-> e.accountId]

C4_Witness ==
    /\ pc = "findHosts_returned"
    /\ Len(served) = 3
    /\ served[1].nextCursor = "c2"
    /\ served[2].nextCursor = "c1"
    /\ served[3].nextCursor = ""
    /\ served[1].entities /= served[2].entities
    /\ served[1].entities /= << >>
    /\ served[2].entities /= << >>
    /\ Len(hosts) = 3

\* C7: a caller that receives undefined from nerdgraphQuery does not crash.
C7_NoDataNeverCrashes == pc /= "crashed"

\* C8: entity and log queries are sent only after the account listing has
\* returned at least one account; a listing without data or without
\* accounts ends the run with exit status 1, and nothing runs after the exit.
C8_CredentialGate ==
    /\ [](\A i \in 1..Len(wire) :
            wire[i].body.query \in EntityQueries \cup LogQueries
               => Len(accountIds) > 0)
    /\ [](pc \notin {"prompt", "fetchAccountIds", "exit"} => Len(accountIds) > 0)
    /\ [][(pc = "fetchAccountIds" /\ qstate = "returned"
             /\ (~IsData(retval) \/ retval.accounts = << >>))
            => (pc' = "exit" /\ exitCode' = 1 /\ wire' = wire)]_vars
    /\ [][pc /= "exit" /\ pc' /= "prompt"]_vars

C8_Witness ==
    /\ pc = "exit"
    /\ exitCode = 1
    /\ IsData(retval)
    /\ retval.accounts = << >>
    /\ wire /= << >>
    /\ \A i \in 1..Len(wire) : wire[i].body.query = "accessibleAccounts"


(***************************************************************************)
(* Properties of findLogCountByHost.                                       *)
(***************************************************************************)
LogSites == {"findLog_first", "findLog_more"}

\* a log request for account a is outstanding or has just been answered
LogRequestFor(a) == pc \in LogSites /\ InCall /\ payload.accountId = a

\* w is the greatest hostname of the rows in the backend's order
GreatestHostname(w, rows) ==
    /\ \E i \in 1..Len(rows) : rows[i].hostname = w
    /\ \A i \in 1..Len(rows) : rows[i].hostname = w \/ Before(rows[i].hostname, w)

\* C5: a request for a further log page follows a page of exactly PageCap
\* rows of the same account and carries the filter hostname > W with W the
\* greatest hostname of that page; after a page below the cap no request
\* for that account follows.
C5_WatermarkPagination ==
    /\ pc = "findLog_more"
          => /\ payload.query = "getMoreLogCountByEntity"
             /\ payload.accountId = lastPage.account
             /\ lastPage.pageNo = logPageNo - 1
             /\ \A i \in 1..Len(wire) : wire[i].body = payload
    /\ (lastPage /= NoPage /\ LogRequestFor(lastPage.account))
          => /\ pc = "findLog_more"
             /\ Len(lastPage.rows) = PageCap
             /\ GreatestHostname(payload.filter, lastPage.rows)
    /\ (lastPage /= NoPage /\ Len(lastPage.rows) = PageCap
          /\ pc \in LogSites /\ lastPage.account = accounts[acctIdx])
          => pc = "findLog_more"

C5_Witness ==
    /\ pc = "findLog_more"
    /\ qstate = "await1"
    /\ logPageNo = 2
    /\ Len(lastPage.rows) = PageCap
    /\ lastPage.rows[1].hostname = <<2>>
    /\ lastPage.rows[2].hostname = <<1, 2>>
    /\ payload.filter = <<2>>

\* the records findLogCountByHost holds for account a
RecordsOf(a) == SelectSeq(hostsWithLogs, LAMBDA r : r.accountId = a)

\* the for loop of findLogCountByHost is past account a
Finished(a) ==
    \/ pc \in {"findLog_returned", "done"} /\ \E i \in 1..Len(accounts) : accounts[i] = a
    \/ pc \in LogSites /\ \E i \in 1..(acctIdx - 1) : accounts[i] = a

\* C6: against a store H of hostnames that answers in ascending order, the
\* number of requests for an account never exceeds |H| div PageCap + 1, and
\* once the loop is past an account whose queries all succeeded the result
\* holds every hostname of H exactly once for that account.
C6_StoreEnumeratedOnce ==
    /\ pc \in LogSites => logPageNo <= (Cardinality(store.H) \div PageCap) + 1
    /\ \A a \in Accounts :
          (Finished(a) /\ a \notin failed)
             => /\ Len(RecordsOf(a)) = Cardinality(store.H)
                /\ { RecordsOf(a)[i].hostname : i \in 1..Len(RecordsOf(a)) } = store.H

C6_Witness ==
    /\ pc = "findLog_returned"
    /\ Cardinality(store.H) = PageCap
    /\ Len(accounts) = 2
    /\ failed = {}
    /\ lastPage.rows = << >>
    /\ lastPage.pageNo = 2
    /\ Len(hostsWithLogs) = 2 * PageCap

\* C9: an account whose first log page came back with zero rows gets no
\* record, no further request and no failure.
C9_EmptyFirstPage ==
    (lastPage.pageNo = 1 /\ lastPage.rows = << >>)
       => /\ RecordsOf(lastPage.account) = << >>
          /\ ~LogRequestFor(lastPage.account)
          /\ lastPage.account \notin failed
          /\ pc \in LogSites \cup {"findLog_returned", "done", "exit"}
          /\ Finished(lastPage.account) \/ pc = "exit"

C9_Witness ==
    /\ lastPage.pageNo = 1
    /\ lastPage.rows = << >>
    /\ lastPage.account = accounts[1]
    /\ pc = "findLog_first"
    /\ acctIdx = 2
    /\ qstate = "await1"
    /\ hostsWithLogs = << >>


(***************************************************************************)
(* Properties of the run as a whole.                                       *)
(***************************************************************************)
IsPrefix(s, t) == Len(s) <= Len(t) /\ SubSeq(t, 1, Len(s)) = s

\* the accounts of the first-page log queries sent so far, in order
ListedAccounts == [i \in 1..Len(listed) |-> listed[i].account]

\* C11: a log query that returned undefined stops the pagination of its
\* account only: the records collected so far are kept, the loop moves to
\* the next account of the list, and when findLogCountByHost returns a first
\* page has been requested for every account of the list.
C11_TransientIsLocal ==
    /\ [][(pc \in LogSites /\ qstate = "returned" /\ ~IsData(retval))
            => /\ hostsWithLogs' = hostsWithLogs
               /\ acctIdx < Len(accounts)
                     => /\ pc' = "findLog_first"
                        /\ qstate' = "await1"
                        /\ payload'.accountId = accounts[acctIdx + 1]
               /\ acctIdx = Len(accounts) => pc' = "findLog_returned"]_vars
    /\ [][IsPrefix(hostsWithLogs, hostsWithLogs')]_vars
    /\ [](pc \in {"findLog_returned", "done"} => ListedAccounts = accounts)
    /\ [](pc \in LogSites => ListedAccounts = SubSeq(accounts, 1, acctIdx))

C11_Witness ==
    /\ pc = "findLog_first"
    /\ qstate = "await1"
    /\ acctIdx = 2
    /\ accounts[1] \in failed
    /\ lastPage.account = accounts[1]
    /\ Len(lastPage.rows) = PageCap
    /\ hostsWithLogs /= << >>
    /\ payload.accountId = accounts[2]


(***************************************************************************)
(* A backend that may leave a request unanswered.                          *)
(***************************************************************************)
\* lines 331-350: the backend sends neither a response nor an error for the
\* outstanding request.  The promise has only the 'end' and 'error'
\* handlers to settle it, and the request is built without a timeout, so
\* nothing is left to run.
BackendSilent ==
    /\ qstate \in {"await1", "await2"}
    /\ qstate' = "hung"
    /\ UNCHANGED << pc, payload, retval, exitCode, accountIds, hosts, accounts,
                    acctIdx, hostsWithLogs, wire, outcomes, served, lastPage,
                    logPageNo, failed, listed, store >>

NextSilent == Next \/ BackendSilent

\* every step the script or the backend can take is eventually taken
SpecSilent == Init /\ [][NextSilent]_vars /\ WF_vars(NextSilent)

\* C12: every request comes to an end, and with it the attempt that sent it.
C12_CallCompletes ==
    (qstate \in {"await1", "await2", "hung"})
        ~> (qstate \notin {"await1", "await2", "hung"})


(***************************************************************************)
(* Properties of the audit: time windows and reconciliation.               *)
(***************************************************************************)
\* Day1 is the most recent 24 hours, Day2 the 24 hours before
Windows == {"Day1", "Day2"}

\* C13: when the run is over, a log-host listing has been started once for
\* each window and each account that has an inventory host.
C13_BothWindowsListed ==
    pc = "done"
       => \A i \in 1..Len(accounts) : \A w \in Windows :
             Cardinality({ k \in 1..Len(listed) :
                             listed[k] = [account |-> accounts[i], window |-> w] }) = 1

HostnamesOf(records) == { records[i].hostname : i \in 1..Len(records) }

\* C14: when the run is over its result holds the four sets of the
\* reconciliation, each a difference by hostname; no hostname of
\* inventoryOnly occurs in the log hosts of window 1 and no hostname of
\* logsOnly occurs in the inventory.
C14_ReconciliationResult ==
    pc = "done"
       => /\ DOMAIN RunOutput =
                {"inventoryOnly", "logsOnly", "newlyMissing", "newlyAppeared"}
          /\ RunOutput.inventoryOnly = HostnamesOf(hosts) \ HostnamesOf(hostsWithLogs)
          /\ RunOutput.logsOnly = HostnamesOf(hostsWithLogs) \ HostnamesOf(hosts)
          /\ RunOutput.inventoryOnly \cap HostnamesOf(hostsWithLogs) = {}
          /\ RunOutput.logsOnly \cap HostnamesOf(hosts) = {}


(***************************************************************************)
(* Properties of the records.                                              *)
(***************************************************************************)
\* C15: every inventory record carries a non-empty guid, the records are
\* as many as the guid-carrying entities received, and no log record has a
\* guid.
C15_RecordIdentifiers ==
    /\ \A i \in 1..Len(hosts) :
          /\ DOMAIN hosts[i] = {"guid", "accountId"}
          /\ hosts[i].guid /= Absent
          /\ hosts[i].guid /= ""
    /\ pc \in {"findHosts_more", "findHosts_returned"}
          => Len(hosts) = Len(SelectSeq(ServedEntities(served), CarriesGuid))
    /\ \A i \in 1..Len(hostsWithLogs) :
          /\ "guid" \notin DOMAIN hostsWithLogs[i]
          /\ DOMAIN hostsWithLogs[i] = {"accountId", "hostname", "logCount"}

C15_Witness ==
    /\ pc = "done"
    /\ Len(hosts) = 3
    /\ \E i \in 1..3 : hosts[i].guid = "g1"
    /\ \E i \in 1..3 : hosts[i].guid = "g2"
    /\ Len(hostsWithLogs) >= 2


(***************************************************************************)
(* The order of the requests.                                              *)
(***************************************************************************)
Outstanding == Len(wire) - Len(outcomes)

\* C16: at most one request is outstanding; the retry is on the wire only
\* once the first attempt is over; the request for a next page is sent only
\* after the page before it has been processed; and a log query is sent only
\* after findHosts has returned, with the inventory left as it was.
C16_StrictlySequential ==
    /\ [](Outstanding \in {0, 1})
    /\ [](Outstanding = 1 <=> qstate \in {"await1", "await2"})
    /\ [](Len(wire) = 2 => Len(outcomes) >= 1 /\ FailedAttempt(outcomes[1]))
    /\ [](pc = "findHosts_more" /\ InCall
            => /\ Len(served) >= 1
               /\ payload.cursor = served[Len(served)].nextCursor
               /\ Len(hosts) = Len(SelectSeq(ServedEntities(served), CarriesGuid)))
    /\ [](pc = "findLog_more" /\ InCall
            => /\ lastPage.pageNo = logPageNo - 1
               /\ lastPage.account = payload.accountId
               /\ PageFull(Len(lastPage.rows)))
    /\ []((Outstanding = 1 /\ payload.query \in LogQueries) => pc \in LogSites)
    /\ [][(pc' \in LogSites /\ pc \notin LogSites)
            => pc = "findHosts_returned" /\ Outstanding = 0]_vars
    /\ [][(pc \in LogSites) => hosts' = hosts]_vars

C16_Witness ==
    /\ pc = "findLog_more"
    /\ qstate = "await2"
    /\ Len(wire) = 2
    /\ Len(outcomes) = 1
    /\ acctIdx = 2

\* the inventory pagination ended on a page that announced a next page
EndedOnFailedPage ==
    /\ pc = "findHosts_returned"
    /\ Len(served) >= 1
    /\ HasMore(served[Len(served)].nextCursor)

\* C17: when the query for a later inventory page returned undefined,
\* findHosts returns the records of the earlier pages unchanged, nothing
\* exits or throws, and the run goes on to the log queries with the accounts
\* of these records.
C17_PartialInventory ==
    /\ [][(pc = "findHosts_more" /\ qstate = "returned" /\ ~IsData(retval))
            => /\ pc' = "findHosts_returned"
               /\ hosts' = hosts
               /\ exitCode' = exitCode
               /\ Len(hosts) = Len(SelectSeq(ServedEntities(served), CarriesGuid))]_vars
    /\ [][EndedOnFailedPage
            => /\ hosts' = hosts
               /\ accounts' = AccountsWithHosts(hosts)
               /\ exitCode' = exitCode
               /\ hosts /= << >> => /\ pc' = "findLog_first"
                                    /\ payload'.query = "getLogCountByEntity"
                                    /\ payload'.accountId = hosts[1].accountId
               /\ hosts = << >> => pc' = "findLog_returned"]_vars
    /\ [](pc = "crashed" => Len(served) = 0)

C17_Witness ==
    /\ EndedOnFailedPage
    /\ Len(served) = 2
    /\ Len(hosts) = 2

(***************************************************************************)
(* The accounts of the log queries.                                        *)
(***************************************************************************)
HostAccounts == { hosts[i].accountId : i \in 1..Len(hosts) }

\* C18: the account list of findLogCountByHost holds each account id of the
\* inventory records once and nothing else; a first-page log query is sent
\* once per account of the list; every log record carries the account id of
\* the query whose page it came from.
C18_LogAccounts ==
    /\ [](pc \in LogSites \cup {"findLog_returned", "done"}
            => /\ Range(accounts) = HostAccounts
               /\ Len(accounts) = Cardinality(HostAccounts))
    /\ [](\A k \in 1..Len(listed) : listed[k].account \in HostAccounts)
    /\ [](\A j, k \in 1..Len(listed) :
             listed[j].account = listed[k].account => j = k)
    /\ [](pc \in {"findLog_returned", "done"}
            => \A a \in HostAccounts :
                  Cardinality({ k \in 1..Len(listed) : listed[k].account = a }) = 1)
    /\ [](pc \in LogSites /\ InCall
            => /\ payload.accountId = accounts[acctIdx]
               /\ listed[Len(listed)].account = payload.accountId)
    /\ [][(pc \in LogSites)
            => \A i \in (Len(hostsWithLogs) + 1)..Len(hostsWithLogs') :
                  hostsWithLogs'[i].accountId = payload.accountId]_vars

C18_Witness ==
    /\ pc = "findLog_returned"
    /\ Len(hosts) = 3
    /\ Len(accounts) = 2
    /\ Len(listed) = 2
    /\ \E i \in 1..Len(hostsWithLogs) : hostsWithLogs[i].accountId = accounts[1]
    /\ \E i \in 1..Len(hostsWithLogs) : hostsWithLogs[i].accountId = accounts[2]

(***************************************************************************)
(* The first attempt.                                                      *)
(***************************************************************************)
\* C19: a first attempt whose response carries data ends the call with one
\* request sent and that data returned, with or without an errors field; a
\* second request is on the wire only after a first attempt that gave no
\* data or raised an error without a certificate indicator.
C19_FirstAttemptWithData ==
    /\ (Len(outcomes) >= 1 /\ outcomes[1].hasData)
          => /\ Len(wire) = 1
             /\ Len(outcomes) = 1
             /\ qstate \notin {"await1", "await2"}
             /\ retval = outcomes[1].data
    /\ Len(wire) = 2
          => /\ Len(outcomes) >= 1
             /\ \/ outcomes[1].type = "response" /\ ~outcomes[1].hasData
                \/ outcomes[1].type = "error" /\ ~CertIndicator(outcomes[1].err)

C19_Witness ==
    /\ qstate = "returned"
    /\ pc = "findHosts_first"
    /\ Len(wire) = 1
    /\ Len(outcomes) = 1
    /\ outcomes[1].hasData
    /\ outcomes[1].errors
    /\ retval = outcomes[1].data

====
